---- MODULE Spec2Model ----
(***************************************************************************)
(* A model of the python-augeas binding (src/augeas.py): the Augeas        *)
(* session object, its handle lifecycle and the operations it forwards to  *)
(* the native engine.  The native engine (the tree, the path matcher, the  *)
(* mutations and save) is not part of src/; it is modelled from spec.md    *)
(* sections 3, 4 and 8, behind the Aug* operators.                         *)
(***************************************************************************)
EXTENDS Integers, Sequences, FiniteSets, TLC

VARIABLES
    phase,      \* "unborn" | "live" | "failed" | "dead": where the object is in its life
    handle,     \* self.__handle: "unset" (attribute never assigned) | "None" | "ptr"
    flags,      \* the flags the native engine was created with
    engine,     \* the native session: "none" | "alive" | "freed"
    tree,       \* the children of the root, an ordered sequence of nodes
    dirty,      \* the source files that have pending changes
    disk,       \* per source file: the content of the file, of its .augnew and of its .augsave
    saves,      \* the number of native save calls made so far
    res,        \* the last call: the operation, its arguments and its outcome
    old,        \* history: the session as it was when the last call was made
    since       \* history: "created", or the last of "mutated" (a set, insert or
                \* remove call), "saved" and "savefailed" (a native save)

vars == <<phase, handle, flags, engine, tree, dirty, disk, saves, res, old, since>>

----
\* Bounds of the model.

MaxNodes == 3
MaxSaves == 2

\* Flags, src/augeas.py:60-63.
NONE == 0
SAVE_BACKUP == 1
SAVE_NEWFILE == 2

Labels == {"a", "b"}
Values == {"x", "y"}
NoValue == "None"
Files == Labels

----
\* The tree model (spec.md section 3 and 4.1).  A node is a record
\* [label, value, children]; children is an ordered sequence of nodes.  A
\* node is addressed by the sequence of positions that lead to it from the
\* root; the root's address is << >>.

Node(l, v, kids) == [label |-> l, value |-> v, children |-> kids]

Idx(n) == [i \in 1..n |-> i]

RECURSIVE Concat(_)
Concat(ss) == IF ss = << >> THEN << >> ELSE Head(ss) \o Concat(Tail(ss))

RECURSIVE Size(_)
\* The number of nodes of a forest: each node and all its descendants.
Size(kids) ==
    IF kids = << >> THEN 0
    ELSE 1 + Size(Head(kids).children) + Size(Tail(kids))

RECURSIVE NodeAt(_, _)
NodeAt(kids, a) ==
    IF Len(a) = 1 THEN kids[a[1]] ELSE NodeAt(kids[a[1]].children, Tail(a))

\* childrenOf(node)
ChildrenAt(t, a) == IF a = << >> THEN t ELSE NodeAt(t, a).children

Front(a) == SubSeq(a, 1, Len(a) - 1)

RECURSIVE SetChildren(_, _, _)
\* The forest t with the children of the node at address a replaced by new.
SetChildren(t, a, new) ==
    IF a = << >> THEN new
    ELSE [t EXCEPT ![a[1]].children = SetChildren(@, Tail(a), new)]

\* indexAmongSiblings(node): the 1-based position among same-labeled siblings.
IndexAmongSiblings(kids, i) ==
    Cardinality({j \in 1..i : kids[j].label = kids[i].label})

\* A path of labels only, without the indices.
PathOfUnindexed(t, a) ==
    [k \in 1..Len(a) |->
        LET kids == ChildrenAt(t, SubSeq(a, 1, k - 1))
        IN  [kind |-> "label", label |-> kids[a[k]].label, idx |-> 0]]

\* The concrete path of the node at address a: label[index] at every level.
PathOf(t, a) ==
    [k \in 1..Len(a) |->
        LET kids == ChildrenAt(t, SubSeq(a, 1, k - 1))
        IN  [kind |-> "index", label |-> kids[a[k]].label,
             idx |-> IndexAmongSiblings(kids, a[k])]]

\* The source file a node belongs to: the label of its top-level ancestor.
FileOf(t, a) == t[a[1]].label

InsertAt(kids, i, n) == SubSeq(kids, 1, i - 1) \o <<n>> \o SubSeq(kids, i, Len(kids))

\* detach: kids without the nodes at the positions ps (and their subtrees).
RemoveAll(kids, ps) ==
    LET keep == SelectSeq(Idx(Len(kids)), LAMBDA i : i \notin ps)
    IN  [k \in 1..Len(keep) |-> kids[keep[k]]]

----
\* The path expression matcher (spec.md section 4.2).  A path expression is
\* a sequence of segments [kind, label, idx]; kind is "star" (*), "label"
\* (label), "index" (label[N]), "last" (label[last()]) or "bad" (a segment
\* that does not parse).

Star == [kind |-> "star", label |-> "*", idx |-> 0]
Lbl(l) == [kind |-> "label", label |-> l, idx |-> 0]
Ind(l, n) == [kind |-> "index", label |-> l, idx |-> n]
Last(l) == [kind |-> "last", label |-> l, idx |-> 0]
Bad == [kind |-> "bad", label |-> "[", idx |-> 0]

\* MalformedExpression or EvaluationError: a segment that does not parse,
\* or an index of 0.
Unevaluable(p) ==
    \E k \in 1..Len(p) :
        \/ p[k].kind = "bad"
        \/ p[k].kind = "index" /\ p[k].idx = 0

\* Segment matching that counts the index from 0.
SegMatchesZeroBased(kids, seg) ==
    LET all == Idx(Len(kids))
        same == SelectSeq(all, LAMBDA i : kids[i].label = seg.label)
    IN  CASE seg.kind = "star" -> all
          [] seg.kind = "label" -> same
          [] seg.kind = "index" ->
                IF seg.idx + 1 \in 1..Len(same) THEN <<same[seg.idx + 1]>> ELSE << >>
          [] seg.kind = "last" ->
                IF Len(same) > 0 THEN <<same[Len(same)]>> ELSE << >>
          [] OTHER -> << >>

\* The positions among kids that one segment matches, in sibling order.
SegMatches(kids, seg) ==
    LET all == Idx(Len(kids))
        same == SelectSeq(all, LAMBDA i : kids[i].label = seg.label)
    IN  CASE seg.kind = "star" -> all
          [] seg.kind = "label" -> same
          [] seg.kind = "index" ->
                IF seg.idx \in 1..Len(same) THEN <<same[seg.idx]>> ELSE << >>
          [] seg.kind = "last" ->
                IF Len(same) > 0 THEN <<same[Len(same)]>> ELSE << >>
          [] OTHER -> << >>

\* One step of the evaluation: every node of the working set is expanded
\* to its matching children.
Expand(t, working, seg) ==
    Concat([k \in 1..Len(working) |->
        LET ms == SegMatches(ChildrenAt(t, working[k]), seg)
        IN  [j \in 1..Len(ms) |-> Append(working[k], ms[j])]])

RECURSIVE Eval(_, _, _)
Eval(t, working, segs) ==
    IF segs = << >> THEN working
    ELSE Eval(t, Expand(t, working, Head(segs)), Tail(segs))

\* The addresses of the nodes a path expression matches, in tree order.
MatchAddrs(t, p) == Eval(t, << << >> >>, p)

----
\* The native engine's entry points (spec.md section 4.3 and 4.4), as the
\* binding calls them.  Each returns the native result code: below 0 when
\* the expression cannot be evaluated.

\* aug_get: the number of matches, and the value of the single match.
AugGet(t, p) ==
    IF Unevaluable(p) THEN [ret |-> -1, value |-> NoValue]
    ELSE LET ms == MatchAddrs(t, p)
         IN  [ret |-> Len(ms),
              value |-> IF Len(ms) = 1 THEN NodeAt(t, ms[1]).value ELSE NoValue]

SetValue(t, a, v) ==
    LET kids == ChildrenAt(t, Front(a))
    IN  SetChildren(t, Front(a), [kids EXCEPT ![a[Len(a)]].value = v])

\* A segment set can create: label and label[N].
Creatable(p) == \A k \in 1..Len(p) : p[k].kind \in {"label", "index"}

RECURSIVE CreateChain(_, _, _, _)
\* Creates the missing chain of nodes along segs below the node at address
\* a, one new last child per missing segment, then assigns the value.
CreateChain(t, a, segs, v) ==
    IF segs = << >> THEN [ret |-> 0, tree |-> SetValue(t, a, v)]
    ELSE LET kids == ChildrenAt(t, a)
             ms == SegMatches(kids, Head(segs))
         IN  CASE Len(ms) = 1 ->
                    CreateChain(t, Append(a, ms[1]), Tail(segs), v)
               [] Len(ms) = 0 ->
                    CreateChain(
                        SetChildren(t, a,
                            Append(kids, Node(Head(segs).label, NoValue, << >>))),
                        Append(a, Len(kids) + 1), Tail(segs), v)
               [] OTHER -> [ret |-> -1, tree |-> t]

\* aug_set that assigns to the first of several matches.
AugSetFirstMatch(t, p, v) ==
    IF Unevaluable(p) THEN [ret |-> -1, tree |-> t, touched |-> {}]
    ELSE LET ms == MatchAddrs(t, p)
         IN  CASE Len(ms) >= 1 ->
                    [ret |-> 0, tree |-> SetValue(t, ms[1], v),
                     touched |-> {FileOf(t, ms[1])}]
               [] OTHER ->
                    IF ~Creatable(p) THEN [ret |-> -1, tree |-> t, touched |-> {}]
                    ELSE LET c == CreateChain(t, << >>, p, v)
                         IN  [ret |-> c.ret, tree |-> c.tree,
                              touched |-> IF c.ret = 0 THEN {p[1].label} ELSE {}]

\* aug_set: 0 on success; touched is the set of source files changed.
AugSet(t, p, v) ==
    IF Unevaluable(p) THEN [ret |-> -1, tree |-> t, touched |-> {}]
    ELSE LET ms == MatchAddrs(t, p)
         IN  CASE Len(ms) > 1 -> [ret |-> -1, tree |-> t, touched |-> {}]
               [] Len(ms) = 1 ->
                    [ret |-> 0, tree |-> SetValue(t, ms[1], v),
                     touched |-> {FileOf(t, ms[1])}]
               [] OTHER ->
                    IF ~Creatable(p) THEN [ret |-> -1, tree |-> t, touched |-> {}]
                    ELSE LET c == CreateChain(t, << >>, p, v)
                         IN  [ret |-> c.ret, tree |-> c.tree,
                              touched |-> IF c.ret = 0 THEN {p[1].label} ELSE {}]

\* A label argument of insert: its text and its form, "plain" or one of
\* the forms a label must not have.
IsLabel(l) == l.form = "plain"

\* aug_insert that takes any text as the label.
AugInsertAnyLabel(t, p, l, before) ==
    IF Unevaluable(p) THEN [ret |-> -1, tree |-> t, touched |-> {}]
    ELSE LET ms == MatchAddrs(t, p)
         IN  IF Len(ms) # 1 THEN [ret |-> -1, tree |-> t, touched |-> {}]
             ELSE LET a == ms[1]
                      kids == ChildrenAt(t, Front(a))
                      at == IF before THEN a[Len(a)] ELSE a[Len(a)] + 1
                      new == SetChildren(t, Front(a),
                                 InsertAt(kids, at, Node(l.text, NoValue, << >>)))
                  IN  [ret |-> 0, tree |-> new,
                       touched |-> IF Len(a) = 1 THEN {l.text} ELSE {FileOf(t, a)}]

\* aug_insert: 0 on success.
AugInsert(t, p, l, before) ==
    IF Unevaluable(p) \/ ~IsLabel(l) THEN [ret |-> -1, tree |-> t, touched |-> {}]
    ELSE LET ms == MatchAddrs(t, p)
         IN  IF Len(ms) # 1 THEN [ret |-> -1, tree |-> t, touched |-> {}]
             ELSE LET a == ms[1]
                      kids == ChildrenAt(t, Front(a))
                      at == IF before THEN a[Len(a)] ELSE a[Len(a)] + 1
                      new == SetChildren(t, Front(a),
                                 InsertAt(kids, at, Node(l.text, NoValue, << >>)))
                  IN  [ret |-> 0, tree |-> new,
                       touched |-> IF Len(a) = 1 THEN {l.text} ELSE {FileOf(t, a)}]

RECURSIVE Detach(_, _)
\* The forest t without the nodes at the addresses as (all of one depth).
Detach(t, as) ==
    LET here == {a[1] : a \in {b \in as : Len(b) = 1}}
        kept == [i \in 1..Len(t) |->
                    [t[i] EXCEPT !.children =
                        Detach(@, {Tail(a) : a \in {b \in as : Len(b) > 1 /\ b[1] = i}})]]
    IN  IF as = {} THEN t ELSE RemoveAll(kept, here)

Range(f) == {f[i] : i \in DOMAIN f}

\* aug_rm: the number of nodes removed.
AugRm(t, p) ==
    IF Unevaluable(p) THEN [ret |-> -1, tree |-> t, touched |-> {}]
    ELSE LET ms == MatchAddrs(t, p)
             new == Detach(t, Range(ms))
         IN  [ret |-> Size(t) - Size(new), tree |-> new,
              touched |-> {FileOf(t, a) : a \in Range(ms)}]

\* aug_match: the number of matches and the array of their concrete paths.
AugMatch(t, p) ==
    IF Unevaluable(p) THEN [ret |-> -1, array |-> << >>]
    ELSE LET ms == MatchAddrs(t, p)
         IN  [ret |-> Len(ms), array |-> [k \in 1..Len(ms) |-> PathOf(t, ms[k])]]

\* aug_print: 0 on success; sinkOK is whether the sink accepts the output.
AugPrint(t, p, sinkOK) == IF Unevaluable(p) \/ ~sinkOK THEN -1 ELSE 0

HasFlag(fl, bit) == (fl \div bit) % 2 = 1

\* The content of one source file on disk: the number of the save that
\* wrote the file (0: the content found at load), and the same for its
\* new-file and backup siblings when they exist.
Disk0 == [f \in Files |-> [orig |-> 0, augnew |-> {}, augsave |-> {}]]

\* One file written under the save mode the flags select.
WriteFile(fl, file, n) ==
    IF HasFlag(fl, SAVE_NEWFILE) THEN [file EXCEPT !.augnew = {n}]
    ELSE IF HasFlag(fl, SAVE_BACKUP) THEN [file EXCEPT !.augsave = {file.orig}, !.orig = n]
    ELSE [file EXCEPT !.orig = n]

\* aug_save that forgets which files it has written.
AugSaveKeepsPending(fl, d, dty, n, unwritable) ==
    LET written == dty \ unwritable
    IN  [ret |-> IF dty \cap unwritable = {} THEN 0 ELSE -1,
         disk |-> [f \in Files |-> IF f \in written THEN WriteFile(fl, d[f], n) ELSE d[f]],
         dirty |-> dty,
         attempted |-> dty,
         written |-> written,
         failed |-> dty \cap unwritable]

\* aug_save, the n-th save of the session: every file with pending changes
\* is attempted; the files of unwritable fail and keep their pending changes.
AugSave(fl, d, dty, n, unwritable) ==
    LET written == dty \ unwritable
    IN  [ret |-> IF dty \cap unwritable = {} THEN 0 ELSE -1,
         disk |-> [f \in Files |-> IF f \in written THEN WriteFile(fl, d[f], n) ELSE d[f]],
         dirty |-> dty \ written,
         attempted |-> dty,
         written |-> written,
         failed |-> dty \cap unwritable]

----
\* The binding (src/augeas.py).  An argument is a record [t, v]: its Python
\* type and its value.

Str(v) == [t |-> "str", v |-> v]
\* Arguments that are no strings, and the arguments a call does not take.
NotStrPath == [t |-> "int", v |-> << >>]
NotStrValue == [t |-> "int", v |-> "0"]
NotStrLabel == [t |-> "int", v |-> [text |-> "0", form |-> "plain"]]
NoPath == [t |-> "NoneType", v |-> << >>]
NoValueArg == [t |-> "NoneType", v |-> NoValue]
NoLabel == [t |-> "NoneType", v |-> [text |-> "", form |-> "plain"]]

\* "not self.__handle"
NotHandle(h) == h = "None"

\* The outcome of a call: the exception raised ("none": it returned), the
\* value returned, whether the native engine was called, and the source
\* file the exception identifies (the binding's exceptions carry a fixed
\* message only).
Out(exc, native) ==
    [exc |-> exc, native |-> native, val |-> NoValue, num |-> 0, paths |-> << >>,
     errsrc |-> {}, attempted |-> {}, written |-> {}, failed |-> {}]

\* The last call as the caller sees it; sink is the type of write's out,
\* and num holds the flags argument of __init__.

Result(op, path, value, label, before, o) ==
    [op |-> op, path |-> path, value |-> value, label |-> label, before |-> before,
     exc |-> o.exc, native |-> o.native, val |-> o.val, num |-> o.num,
     paths |-> o.paths, errsrc |-> o.errsrc, attempted |-> o.attempted,
     written |-> o.written, failed |-> o.failed, sink |-> "file"]

\* Augeas.__init__ that does not hand the flags to aug_init.
InitCallDropsFlags(rootT, loadpathT, flagsT, fl, nativeOK) ==
    IF rootT \notin {"str", "NoneType"} THEN [exc |-> "TypeError", handle |-> "unset", flags |-> NONE]
    ELSE IF loadpathT \notin {"str", "NoneType"} THEN [exc |-> "TypeError", handle |-> "unset", flags |-> NONE]
    ELSE IF flagsT # "int" THEN [exc |-> "TypeError", handle |-> "unset", flags |-> NONE]
    ELSE IF ~nativeOK THEN [exc |-> "RuntimeError", handle |-> "None", flags |-> NONE]
    ELSE [exc |-> "none", handle |-> "ptr", flags |-> NONE]

\* Augeas.__init__
InitCall(rootT, loadpathT, flagsT, fl, nativeOK) ==
    IF rootT \notin {"str", "NoneType"} THEN [exc |-> "TypeError", handle |-> "unset", flags |-> NONE]
    ELSE IF loadpathT \notin {"str", "NoneType"} THEN [exc |-> "TypeError", handle |-> "unset", flags |-> NONE]
    ELSE IF flagsT # "int" THEN [exc |-> "TypeError", handle |-> "unset", flags |-> NONE]
    ELSE IF ~nativeOK THEN [exc |-> "RuntimeError", handle |-> "None", flags |-> NONE]
    ELSE [exc |-> "none", handle |-> "ptr", flags |-> fl]

\* Augeas.get that lets two matches pass.
GetCallLenient(h, t, path) ==
    IF path.t # "str" THEN Out("TypeError", FALSE)
    ELSE IF NotHandle(h) THEN Out("RuntimeError", FALSE)
    ELSE LET r == AugGet(t, path.v)
         IN  IF r.ret > 2 THEN Out("ValueError", TRUE)
             ELSE [Out("none", TRUE) EXCEPT !.val = r.value]

\* Augeas.get without the check of the handle.
GetCallUnguarded(h, t, path) ==
    IF path.t # "str" THEN Out("TypeError", FALSE)
    ELSE LET r == AugGet(t, path.v)
         IN  IF r.ret > 1 THEN Out("ValueError", TRUE)
             ELSE [Out("none", TRUE) EXCEPT !.val = r.value]

\* Augeas.get
GetCall(h, t, path) ==
    IF path.t # "str" THEN Out("TypeError", FALSE)
    ELSE IF NotHandle(h) THEN Out("RuntimeError", FALSE)
    ELSE LET r == AugGet(t, path.v)
         IN  IF r.ret > 1 THEN Out("ValueError", TRUE)
             ELSE [Out("none", TRUE) EXCEPT !.val = r.value]

\* Augeas.set that ignores the native result.
SetCallUnchecked(h, t, path, value) ==
    IF path.t # "str" THEN [out |-> Out("TypeError", FALSE), tree |-> t, touched |-> {}]
    ELSE IF value.t # "str" THEN [out |-> Out("TypeError", FALSE), tree |-> t, touched |-> {}]
    ELSE IF NotHandle(h) THEN [out |-> Out("RuntimeError", FALSE), tree |-> t, touched |-> {}]
    ELSE LET r == AugSet(t, path.v, value.v)
         IN  [out |-> Out("none", TRUE), tree |-> r.tree, touched |-> r.touched]

\* Augeas.set
SetCall(h, t, path, value) ==
    IF path.t # "str" THEN [out |-> Out("TypeError", FALSE), tree |-> t, touched |-> {}]
    ELSE IF value.t # "str" THEN [out |-> Out("TypeError", FALSE), tree |-> t, touched |-> {}]
    ELSE IF NotHandle(h) THEN [out |-> Out("RuntimeError", FALSE), tree |-> t, touched |-> {}]
    ELSE LET r == AugSet(t, path.v, value.v)
         IN  [out |-> IF r.ret # 0 THEN Out("ValueError", TRUE) ELSE Out("none", TRUE),
              tree |-> r.tree, touched |-> r.touched]

\* Augeas.insert that hands the native engine the opposite of before.
InsertCallSwapped(h, t, path, label, before) ==
    IF path.t # "str" THEN [out |-> Out("TypeError", FALSE), tree |-> t, touched |-> {}]
    ELSE IF label.t # "str" THEN [out |-> Out("TypeError", FALSE), tree |-> t, touched |-> {}]
    ELSE IF NotHandle(h) THEN [out |-> Out("RuntimeError", FALSE), tree |-> t, touched |-> {}]
    ELSE LET r == AugInsert(t, path.v, label.v, ~before)
         IN  [out |-> IF r.ret # 0 THEN Out("ValueError", TRUE) ELSE Out("none", TRUE),
              tree |-> r.tree, touched |-> r.touched]

\* Augeas.insert
InsertCall(h, t, path, label, before) ==
    IF path.t # "str" THEN [out |-> Out("TypeError", FALSE), tree |-> t, touched |-> {}]
    ELSE IF label.t # "str" THEN [out |-> Out("TypeError", FALSE), tree |-> t, touched |-> {}]
    ELSE IF NotHandle(h) THEN [out |-> Out("RuntimeError", FALSE), tree |-> t, touched |-> {}]
    ELSE LET r == AugInsert(t, path.v, label.v, before)
         IN  [out |-> IF r.ret # 0 THEN Out("ValueError", TRUE) ELSE Out("none", TRUE),
              tree |-> r.tree, touched |-> r.touched]

\* Augeas.remove
RemoveCall(h, t, path) ==
    IF path.t # "str" THEN [out |-> Out("TypeError", FALSE), tree |-> t, touched |-> {}]
    ELSE IF NotHandle(h) THEN [out |-> Out("RuntimeError", FALSE), tree |-> t, touched |-> {}]
    ELSE LET r == AugRm(t, path.v)
         IN  [out |-> [Out("none", TRUE) EXCEPT !.num = r.ret],
              tree |-> r.tree, touched |-> r.touched]

\* Augeas.match that stops one entry short of the native array.
MatchCallShort(h, t, path) ==
    IF path.t # "str" THEN Out("TypeError", FALSE)
    ELSE IF NotHandle(h) THEN Out("RuntimeError", FALSE)
    ELSE LET r == AugMatch(t, path.v)
         IN  IF r.ret < 0 THEN Out("RuntimeError", TRUE)
             ELSE [Out("none", TRUE) EXCEPT
                      !.paths = SelectSeq(SubSeq(r.array, 1, r.ret - 1),
                                          LAMBDA e : e # << >>)]

\* Augeas.match: the entries of the native array that are not empty.
MatchCall(h, t, path) ==
    IF path.t # "str" THEN Out("TypeError", FALSE)
    ELSE IF NotHandle(h) THEN Out("RuntimeError", FALSE)
    ELSE LET r == AugMatch(t, path.v)
         IN  IF r.ret < 0 THEN Out("RuntimeError", TRUE)
             ELSE [Out("none", TRUE) EXCEPT
                      !.paths = SelectSeq(r.array, LAMBDA e : e # << >>)]

\* Augeas.save
SaveCall(h, fl, d, dty, n, unwritable) ==
    IF NotHandle(h) THEN [out |-> Out("RuntimeError", FALSE), disk |-> d, dirty |-> dty]
    ELSE LET r == AugSave(fl, d, dty, n, unwritable)
             o == [Out(IF r.ret # 0 THEN "IOError" ELSE "none", TRUE) EXCEPT
                      !.attempted = r.attempted, !.written = r.written,
                      !.failed = r.failed]
         IN  [out |-> o, disk |-> r.disk, dirty |-> r.dirty]

\* Augeas.write that looks at the handle before the types of its arguments.
WriteCallHandleFirst(h, t, path, outT, sinkOK) ==
    IF NotHandle(h) THEN Out("RuntimeError", FALSE)
    ELSE IF outT # "file" THEN Out("TypeError", FALSE)
    ELSE IF path.t # "str" THEN Out("TypeError", FALSE)
    ELSE IF AugPrint(t, path.v, sinkOK) # 0 THEN Out("IOError", TRUE)
    ELSE Out("none", TRUE)

\* Augeas.write
WriteCall(h, t, path, outT, sinkOK) ==
    IF outT # "file" THEN Out("TypeError", FALSE)
    ELSE IF path.t # "str" THEN Out("TypeError", FALSE)
    ELSE IF NotHandle(h) THEN Out("RuntimeError", FALSE)
    ELSE IF AugPrint(t, path.v, sinkOK) # 0 THEN Out("IOError", TRUE)
    ELSE Out("none", TRUE)

\* Augeas.close that does not mark the object as closed.
CloseCallKeepsHandle(h) ==
    CASE h = "unset" -> [exc |-> "AttributeError", handle |-> h, native |-> FALSE]
      [] NotHandle(h) -> [exc |-> "none", handle |-> h, native |-> FALSE]
      [] OTHER -> [exc |-> "none", handle |-> h, native |-> TRUE]

\* Augeas.close: reading self.__handle fails when __init__ never assigned it.
CloseCall(h) ==
    CASE h = "unset" -> [exc |-> "AttributeError", handle |-> h, native |-> FALSE]
      [] NotHandle(h) -> [exc |-> "none", handle |-> h, native |-> FALSE]
      [] OTHER -> [exc |-> "none", handle |-> "None", native |-> TRUE]

----
\* The inputs of the calls.

PyTypes == {"str", "NoneType", "int"}
FlagValues == {NONE, SAVE_BACKUP, SAVE_NEWFILE, SAVE_BACKUP + SAVE_NEWFILE}

Segments ==
    {Star, Bad} \cup {Lbl(l) : l \in Labels} \cup {Last(l) : l \in Labels}
    \cup {Ind(l, n) : l \in Labels, n \in 0..MaxNodes}

\* The segments of the two-segment expressions.
Heads == {Star, Lbl("a"), Ind("a", 1)}
Subs ==
    {Star} \cup {Lbl(l) : l \in Labels} \cup {Last(l) : l \in Labels}
    \cup {Ind(l, n) : l \in Labels, n \in 1..(MaxNodes - 1)}

PathExprs == {<<s>> : s \in Segments} \cup {<<s1, s2>> : s1 \in Heads, s2 \in Subs}

PathArgs == {Str(p) : p \in PathExprs} \cup {NotStrPath}
ValueArgs == {Str(v) : v \in Values} \cup {NotStrValue}
PlainLabels == {Str([text |-> l, form |-> "plain"]) : l \in Labels}
LabelArgs ==
    PlainLabels
    \cup {Str([text |-> "a/b", form |-> "slash"]), Str([text |-> "*", form |-> "star"]),
          Str([text |-> "a[1]", form |-> "indexed"]), NotStrLabel}

\* The inputs of the session specification: one-segment expressions.
SessionPaths == {Str(<<Lbl("a")>>), Str(<<Bad>>), NotStrPath}

----
\* The state machine.  The caller makes one call at a time: a call is made
\* when the previous result has been taken (res.op = "none").

Idle == Result("none", NoPath, NoValueArg, NoLabel, FALSE, Out("none", FALSE))

Snapshot ==
    [handle |-> handle, flags |-> flags, tree |-> tree, dirty |-> dirty, disk |-> disk,
     since |-> since]

Init ==
    /\ phase = "unborn"
    /\ handle = "unset"
    /\ flags = NONE
    /\ engine = "none"
    /\ tree = << >>
    /\ dirty = {}
    /\ disk = Disk0
    /\ saves = 0
    /\ res = Idle
    /\ since = "created"
    /\ old = Snapshot

\* Augeas(root, loadpath, flags)
Construct(rootT, loadpathT, flagsT, fl, nativeOK) ==
    /\ phase = "unborn"
    /\ LET o == InitCall(rootT, loadpathT, flagsT, fl, nativeOK)
       IN  /\ phase' = IF o.exc = "none" THEN "live" ELSE "failed"
           /\ handle' = o.handle
           /\ flags' = o.flags
           /\ engine' = IF o.exc = "none" THEN "alive" ELSE "none"
           /\ res' = [Result("__init__", NoPath, NoValueArg, NoLabel, FALSE,
                             Out(o.exc, o.handle # "unset")) EXCEPT !.num = fl]
    /\ old' = Snapshot
    /\ UNCHANGED <<tree, dirty, disk, saves, since>>

Callable == phase = "live" /\ res = Idle

Get(path) ==
    /\ Callable
    /\ res' = Result("get", path, NoValueArg, NoLabel, FALSE, GetCall(handle, tree, path))
    /\ old' = Snapshot
    /\ UNCHANGED <<phase, handle, flags, engine, tree, dirty, disk, saves, since>>

\* Augeas.set that drops the handle when aug_set fails.
SetInvalidates(path, value) ==
    /\ Callable
    /\ LET c == SetCall(handle, tree, path, value)
       IN  /\ Size(c.tree) <= MaxNodes
           /\ tree' = c.tree
           /\ dirty' = dirty \cup c.touched
           /\ handle' = IF c.out.exc = "ValueError" THEN "None" ELSE handle
           /\ res' = Result("set", path, value, NoLabel, FALSE, c.out)
    /\ since' = "mutated"
    /\ old' = Snapshot
    /\ UNCHANGED <<phase, flags, engine, disk, saves>>

Set(path, value) ==
    /\ Callable
    /\ LET c == SetCall(handle, tree, path, value)
       IN  /\ Size(c.tree) <= MaxNodes
           /\ tree' = c.tree
           /\ dirty' = dirty \cup c.touched
           /\ res' = Result("set", path, value, NoLabel, FALSE, c.out)
    /\ since' = "mutated"
    /\ old' = Snapshot
    /\ UNCHANGED <<phase, handle, flags, engine, disk, saves>>

Insert(path, label, before) ==
    /\ Callable
    /\ LET c == InsertCall(handle, tree, path, label, before)
       IN  /\ Size(c.tree) <= MaxNodes
           /\ tree' = c.tree
           /\ dirty' = dirty \cup c.touched
           /\ res' = Result("insert", path, NoValueArg, label, before, c.out)
    /\ since' = "mutated"
    /\ old' = Snapshot
    /\ UNCHANGED <<phase, handle, flags, engine, disk, saves>>

Remove(path) ==
    /\ Callable
    /\ LET c == RemoveCall(handle, tree, path)
       IN  /\ tree' = c.tree
           /\ dirty' = dirty \cup c.touched
           /\ res' = Result("remove", path, NoValueArg, NoLabel, FALSE, c.out)
    /\ since' = "mutated"
    /\ old' = Snapshot
    /\ UNCHANGED <<phase, handle, flags, engine, disk, saves>>

Match(path) ==
    /\ Callable
    /\ res' = Result("match", path, NoValueArg, NoLabel, FALSE, MatchCall(handle, tree, path))
    /\ old' = Snapshot
    /\ UNCHANGED <<phase, handle, flags, engine, tree, dirty, disk, saves, since>>

Save(unwritable) ==
    /\ Callable
    /\ NotHandle(handle) \/ saves < MaxSaves
    /\ LET c == SaveCall(handle, flags, disk, dirty, saves + 1, unwritable)
       IN  /\ disk' = c.disk
           /\ dirty' = c.dirty
           /\ saves' = IF c.out.native THEN saves + 1 ELSE saves
           /\ since' = IF ~c.out.native THEN since
                       ELSE IF c.out.exc = "none" THEN "saved" ELSE "savefailed"
           /\ res' = Result("save", NoPath, NoValueArg, NoLabel, FALSE, c.out)
    /\ old' = Snapshot
    /\ UNCHANGED <<phase, handle, flags, engine, tree>>

\* Augeas.write that leaves the source files of the session marked as changed.
WriteTouches(path, outT, sinkOK) ==
    /\ Callable
    /\ res' = [Result("write", path, NoValueArg, NoLabel, FALSE,
                      WriteCall(handle, tree, path, outT, sinkOK)) EXCEPT !.sink = outT]
    /\ dirty' = IF NotHandle(handle) THEN dirty ELSE Files
    /\ old' = Snapshot
    /\ UNCHANGED <<phase, handle, flags, engine, tree, disk, saves, since>>

Write(path, outT, sinkOK) ==
    /\ Callable
    /\ res' = [Result("write", path, NoValueArg, NoLabel, FALSE,
                      WriteCall(handle, tree, path, outT, sinkOK)) EXCEPT !.sink = outT]
    /\ old' = Snapshot
    /\ UNCHANGED <<phase, handle, flags, engine, tree, dirty, disk, saves, since>>

\* The effect of close on the session: aug_close frees the native session
\* and its tree.
Closing(op, nextPhase) ==
    LET c == CloseCall(handle)
    IN  /\ phase' = nextPhase
        /\ handle' = c.handle
        /\ engine' = IF c.native THEN "freed" ELSE engine
        /\ tree' = IF c.native THEN << >> ELSE tree
        /\ dirty' = IF c.native THEN {} ELSE dirty
        /\ res' = Result(op, NoPath, NoValueArg, NoLabel, FALSE, Out(c.exc, c.native))
        /\ old' = Snapshot
        /\ UNCHANGED <<flags, disk, saves, since>>

Close ==
    /\ Callable
    /\ Closing("close", "live")

\* Augeas.__del__: the object is finalised, also after __init__ raised.
Del ==
    /\ phase \in {"live", "failed"}
    /\ res = Idle
    /\ Closing("__del__", "dead")

\* The caller takes the result of the call and is ready for the next one.
Return ==
    /\ res # Idle
    /\ res' = Idle
    /\ old' = Snapshot
    /\ UNCHANGED <<phase, handle, flags, engine, tree, dirty, disk, saves, since>>

\* The session: every operation, every flag, one-segment expressions.
Next ==
    \/ \E rootT \in PyTypes, loadpathT \in PyTypes, flagsT \in PyTypes,
          fl \in FlagValues, nativeOK \in BOOLEAN :
            Construct(rootT, loadpathT, flagsT, fl, nativeOK)
    \/ \E path \in SessionPaths : Get(path)
    \/ \E path \in SessionPaths, value \in ValueArgs : Set(path, value)
    \/ \E path \in SessionPaths, label \in LabelArgs, before \in BOOLEAN :
            Insert(path, label, before)
    \/ \E path \in SessionPaths : Remove(path)
    \/ \E path \in SessionPaths : Match(path)
    \/ \E unwritable \in SUBSET Files : Save(unwritable)
    \/ \E path \in SessionPaths, outT \in {"file", "str"}, sinkOK \in BOOLEAN :
            Write(path, outT, sinkOK)
    \/ Close
    \/ Del
    \/ Return

Spec == Init /\ [][Next]_vars

\* The tree: the operations on the tree with every path expression, on a
\* session created without flags.
NextTree ==
    \/ \E nativeOK \in BOOLEAN : Construct("str", "NoneType", "int", NONE, nativeOK)
    \/ \E path \in PathArgs : Get(path)
    \/ \E path \in PathArgs, value \in ValueArgs : Set(path, value)
    \/ \E path \in PathArgs, label \in PlainLabels, before \in BOOLEAN :
            Insert(path, label, before)
    \/ \E path \in PathArgs : Remove(path)
    \/ \E path \in PathArgs : Match(path)
    \/ Return

SpecTree == Init /\ [][NextTree]_vars

----
\* The session (spec.md section 4.4).

SessionOps == {"get", "set", "insert", "remove", "match", "save", "write"}

\* The arguments of the last call have the types the binding asks for.
WellTyped(r) ==
    /\ r.op \in {"get", "set", "insert", "remove", "match", "write"} => r.path.t = "str"
    /\ r.op = "set" => r.value.t = "str"
    /\ r.op = "insert" => r.label.t = "str"
    /\ r.op = "write" => r.sink = "file"

\* The session was closed when the last call was made.
WasClosed == old.handle = "None"

\* The last call left the session as it was.
SessionUnchanged ==
    /\ handle = old.handle
    /\ flags = old.flags
    /\ tree = old.tree
    /\ dirty = old.dirty
    /\ disk = old.disk

\* C1, as stated: once close has been called, every call of get, set,
\* insert, remove, match, save or write fails with SessionClosed
\* (RuntimeError).
C1_EveryCallFailsClosed ==
    (res.op \in SessionOps /\ WasClosed) => res.exc = "RuntimeError"

\* C1, amended: once close has been called, every call of get, set, insert,
\* remove, match, save or write whose arguments are well typed fails with
\* SessionClosed (RuntimeError), and an ill-typed call fails with TypeError;
\* neither changes the session, and no operation returns the session to Open.
C1_ClosedIsTerminal ==
    /\ []((res.op \in SessionOps /\ WasClosed) =>
            /\ res.exc = IF WellTyped(res) THEN "RuntimeError" ELSE "TypeError"
            /\ ~res.native
            /\ SessionUnchanged)
    /\ [][handle = "None" => handle' = "None"]_vars

\* C1, witness: a well-typed set has been called on a closed session.
C1_Witness ==
    /\ WasClosed
    /\ res.op = "set"
    /\ WellTyped(res)
    /\ res.exc = "RuntimeError"

\* C2, as stated: close never raises, whether the session is open, already
\* closed or finalised through __del__ after __init__ raised, and a close
\* on a closed session changes nothing.
C2_CloseNeverFails ==
    res.op \in {"close", "__del__"} =>
        /\ res.exc = "none"
        /\ old.handle # "ptr" => (handle = old.handle /\ ~res.native)

\* The last call is a save that reached the native engine.
Saved == res.op = "save" /\ res.native

C9_SaveModeFixedByFlags ==
    /\ (res.op = "__init__" /\ res.exc = "none") => flags = res.num
    /\ (res.op # "__init__" /\ phase # "unborn") => flags = old.flags
    /\ HasFlag(flags, SAVE_NEWFILE) =>
            \A f \in Files : disk[f].orig = Disk0[f].orig /\ disk[f].augsave = {}
    /\ (HasFlag(flags, SAVE_BACKUP) /\ ~HasFlag(flags, SAVE_NEWFILE)) =>
            \A f \in Files : disk[f].augnew = {}
    /\ (~HasFlag(flags, SAVE_BACKUP) /\ ~HasFlag(flags, SAVE_NEWFILE)) =>
            \A f \in Files : disk[f].augnew = {} /\ disk[f].augsave = {}
    /\ Saved =>
          \A f \in res.written :
            IF HasFlag(flags, SAVE_NEWFILE)
            THEN disk[f] = [old.disk[f] EXCEPT !.augnew = {saves}]
            ELSE IF HasFlag(flags, SAVE_BACKUP)
            THEN disk[f] = [old.disk[f] EXCEPT !.augsave = {old.disk[f].orig}, !.orig = saves]
            ELSE disk[f] = [old.disk[f] EXCEPT !.orig = saves]

\* C9, witness: with both flags set a second save has written a file.
C9_Witness ==
    /\ Saved
    /\ flags = SAVE_BACKUP + SAVE_NEWFILE
    /\ saves = MaxSaves
    /\ res.written # {}

\* C10, as stated: when save fails on one of the files with pending
\* changes the other files are still attempted, and the error the caller
\* gets identifies the source file the failure occurred for.
C10_SaveErrorNamesSource ==
    (Saved /\ res.exc = "IOError") =>
        /\ res.attempted = old.dirty
        /\ res.failed # {}
        /\ res.errsrc = res.failed

----
\* The tree operations (spec.md section 4.2 and 4.3).

\* The last call was made on an open session with a string as its path.
OnOpen(op) == res.op = op /\ res.path.t = "str" /\ ~WasClosed

\* The nodes an expression matches; none when it cannot be evaluated.
Matched(t, p) == IF Unevaluable(p) THEN << >> ELSE MatchAddrs(t, p)

\* C3: on an open session get(path) raises ValueError (AmbiguousPath) when
\* path matches more than one node, returns None (absent) without an error
\* when it matches none, and returns the value of the node when it matches
\* exactly one.
C3_GetOutcomes ==
    OnOpen("get") =>
        LET ms == Matched(tree, res.path.v)
        IN  /\ tree = old.tree
            /\ Len(ms) > 1 => res.exc = "ValueError"
            /\ Len(ms) = 0 => (res.exc = "none" /\ res.val = NoValue)
            /\ Len(ms) = 1 => (res.exc = "none" /\ res.val = NodeAt(tree, ms[1]).value)

\* C3, witness: a get of a path that two nodes match, under a common parent.
C3_Witness ==
    /\ OnOpen("get")
    /\ Len(res.path.v) = 2
    /\ Len(Matched(tree, res.path.v)) = 2
    /\ res.exc = "ValueError"

\* C4: every path match returns matches exactly one node of the unchanged
\* tree, the node it was returned for, so get on it never raises ValueError
\* (AmbiguousPath).
C4_MatchPathsUnique ==
    (OnOpen("match") /\ res.exc = "none") =>
        LET ms == Matched(tree, res.path.v)
        IN  /\ tree = old.tree
            /\ Len(res.paths) = Len(ms)
            /\ \A k \in 1..Len(res.paths) :
                  /\ Matched(tree, res.paths[k]) = <<ms[k]>>
                  /\ GetCall(handle, tree, Str(res.paths[k])).exc = "none"
                  /\ GetCall(handle, tree, Str(res.paths[k])).val = NodeAt(tree, ms[k]).value

\* C4, witness: a match with '*' that returned the paths of three nodes, two
\* of them with the same label.
C4_Witness ==
    /\ OnOpen("match")
    /\ res.path.v = <<Star>>
    /\ Len(res.paths) = MaxNodes
    /\ \E j, k \in 1..Len(res.paths) : j # k /\ res.paths[j][1].label = res.paths[k][1].label

\* The last call is a set of a creatable path that returned.
SetDone == OnOpen("set") /\ res.value.t = "str" /\ res.exc = "none" /\ Creatable(res.path.v)

RECURSIVE Addressed(_, _, _)
\* Every node set has to create along segs below the node at a is one its
\* segment matches once created: the segment is a plain label, or label[N]
\* with N one more than the number of siblings that carry the label.
Addressed(t, a, segs) ==
    IF segs = << >> THEN TRUE
    ELSE LET kids == ChildrenAt(t, a)
             ms == SegMatches(kids, Head(segs))
             same == Cardinality({i \in 1..Len(kids) : kids[i].label = Head(segs).label})
         IN  CASE Len(ms) = 1 -> Addressed(t, Append(a, ms[1]), Tail(segs))
               [] Len(ms) = 0 ->
                    /\ Head(segs).kind = "label" \/ Head(segs).idx = same + 1
                    /\ \A k \in 2..Len(segs) : segs[k].kind = "label" \/ segs[k].idx = 1
               [] OTHER -> FALSE

C6_InsertSibling ==
    (OnOpen("insert") /\ res.label.t = "str" /\ IsLabel(res.label.v)
        /\ Len(Matched(old.tree, res.path.v)) = 1) =>
        LET a == Matched(old.tree, res.path.v)[1]
            i == a[Len(a)]
            kids == ChildrenAt(old.tree, Front(a))
            now == ChildrenAt(tree, Front(a))
            at == IF res.before THEN i ELSE i + 1
            same == SelectSeq(Idx(Len(now)), LAMBDA j : now[j].label = res.label.v.text)
        IN  /\ res.exc = "none"
            /\ Size(tree) = Size(old.tree) + 1
            /\ Len(now) = Len(kids) + 1
            /\ now[at] = Node(res.label.v.text, NoValue, << >>)
            /\ now[IF res.before THEN i + 1 ELSE i] = kids[i]
            /\ RemoveAll(now, {at}) = kids
            /\ tree = SetChildren(old.tree, Front(a), now)
            /\ \A j \in 1..Len(same) :
                  PathOf(tree, Append(Front(a), same[j]))[Len(a)] = Ind(res.label.v.text, j)

\* C6, witness: 'a' inserted after a[1] of two nodes a: the three nodes a are
\* the first, the new one and the second.
C6_Witness ==
    /\ OnOpen("insert")
    /\ res.exc = "none"
    /\ res.path.v = <<Ind("a", 1)>>
    /\ ~res.before
    /\ old.tree = <<Node("a", "x", << >>), Node("a", "y", << >>)>>
    /\ tree = <<Node("a", "x", << >>), Node("a", NoValue, << >>), Node("a", "y", << >>)>>

RECURSIVE SizeOfAll(_, _)
\* The number of nodes in the subtrees at the addresses of ms.
SizeOfAll(t, ms) ==
    IF ms = << >> THEN 0
    ELSE 1 + Size(NodeAt(t, Head(ms)).children) + SizeOfAll(t, Tail(ms))

\* C7, as stated: remove(path) returns 0 if and only if path matched no
\* node; otherwise it removes every matched node with its subtree and
\* returns the number of nodes removed; afterwards path matches no node;
\* the value returned is never negative.
C7_RemoveCount ==
    OnOpen("remove") =>
        LET ms == Matched(old.tree, res.path.v)
        IN  /\ res.exc = "none"
            /\ res.num >= 0
            /\ res.num = 0 <=> ms = << >>
            /\ res.num = SizeOfAll(old.tree, ms)
            /\ Size(tree) = Size(old.tree) - res.num
            /\ Matched(tree, res.path.v) = << >>

----
\* Errors (spec.md section 7).

\* The expressions of the call that follows a failed call.
RetryPaths == {<<Star>>, <<Lbl("a")>>, <<Ind("a", 1)>>, <<Lbl("a"), Lbl("b")>>}

\* The last call was made on an open session and raised.
Failed == res.op \in SessionOps /\ old.handle = "ptr" /\ res.exc # "none"

\* C11: an error raised by get, set, insert, remove, match, save or write on
\* an open session leaves the session open and the tree as it was (a failed
\* call other than save leaves the pending changes and the files as they
\* were too), so the next well-typed call reaches the native engine; after
\* a failed set some set succeeds and get returns its value, and after a
\* failed insert every insert of a plain label at a path that matches
\* exactly one node succeeds.
C11_ErrorLeavesSessionOpen ==
    Failed =>
        /\ handle = "ptr"
        /\ engine = "alive"
        /\ phase = "live"
        /\ tree = old.tree
        /\ res.op # "save" => (dirty = old.dirty /\ disk = old.disk)
        /\ \A p \in RetryPaths :
              /\ GetCall(handle, tree, Str(p)).native
              /\ MatchCall(handle, tree, Str(p)).native
              /\ RemoveCall(handle, tree, Str(p)).out.native
        /\ res.op = "set" =>
              \E p \in RetryPaths, v \in Values :
                LET c == SetCall(handle, tree, Str(p), Str(v))
                IN  /\ c.out.exc = "none"
                    /\ GetCall(handle, c.tree, Str(p)).val = v
        /\ res.op = "insert" =>
              \A p \in RetryPaths, l \in PlainLabels :
                Len(Matched(tree, p)) = 1 =>
                    LET c == InsertCall(handle, tree, Str(p), l, res.before)
                    IN  c.out.exc = "none" /\ Size(c.tree) = Size(tree) + 1

\* C11, witness: an insert with a label that is no label has raised
\* ValueError on an open session that has a node to insert at.
C11_Witness ==
    /\ Failed
    /\ res.op = "insert"
    /\ res.exc = "ValueError"
    /\ res.label.t = "str"
    /\ ~IsLabel(res.label.v)
    /\ Len(Matched(tree, res.path.v)) = 1

\* The expression has a '*' or a '[last()]' segment.
HasWildcard(p) == \E k \in 1..Len(p) : p[k].kind \in {"star", "last"}

\* C12: on an open session set(path, value) raises ValueError (AmbiguousPath)
\* when path matches more than one node, and raises ValueError (SetError)
\* when path matches no node and has a '*' or '[last()]' segment; in both
\* cases the tree and the pending changes are left as they were.
C12_SetFailures ==
    (OnOpen("set") /\ res.value.t = "str") =>
        LET ms == Matched(old.tree, res.path.v)
            nothingDone == res.exc = "ValueError" /\ tree = old.tree /\ dirty = old.dirty
        IN  /\ Len(ms) > 1 => nothingDone
            /\ (ms = << >> /\ HasWildcard(res.path.v)) => nothingDone

\* C12, witness: a set of 'a/b[last()]' has raised where a exists and has
\* no child b.
C12_Witness ==
    /\ OnOpen("set")
    /\ res.value.t = "str"
    /\ res.path.v = <<Lbl("a"), Last("b")>>
    /\ Len(Matched(old.tree, <<Lbl("a")>>)) = 1
    /\ Matched(old.tree, res.path.v) = << >>
    /\ res.exc = "ValueError"

\* C13: on an open session insert(path, label, before) raises ValueError
\* unless path matches exactly one node (no match and more than one match
\* both fail), and raises ValueError (InvalidLabel) when label contains '/',
\* '*' or a bracketed index; an insert that raises adds no node and leaves
\* the tree and the pending changes as they were.
C13_InsertFailures ==
    (OnOpen("insert") /\ res.label.t = "str") =>
        LET ms == Matched(old.tree, res.path.v)
            nothingDone == res.exc = "ValueError" /\ tree = old.tree /\ dirty = old.dirty
        IN  /\ Len(ms) # 1 => nothingDone
            /\ ~IsLabel(res.label.v) => nothingDone
            /\ res.exc # "none" => (tree = old.tree /\ Size(tree) = Size(old.tree))
            /\ res.exc = "none" => Size(tree) = Size(old.tree) + 1

\* C13, witness: an insert of a plain label has raised at a path that two
\* nodes match.
C13_Witness ==
    /\ OnOpen("insert")
    /\ res.label.t = "str"
    /\ IsLabel(res.label.v)
    /\ Len(Matched(old.tree, res.path.v)) = 2
    /\ res.exc = "ValueError"
    /\ tree = old.tree

----
\* The matcher, stated node by node (spec.md section 3, Path Expression).

\* The child at position i of kids is one the segment selects.
Selects(kids, i, seg) ==
    LET same == {j \in 1..Len(kids) : kids[j].label = seg.label}
    IN  CASE seg.kind = "star" -> TRUE
          [] seg.kind = "label" -> i \in same
          [] seg.kind = "index" ->
                i \in same /\ Cardinality({j \in same : j <= i}) = seg.idx
          [] seg.kind = "last" -> i \in same /\ \A j \in same : j <= i
          [] OTHER -> FALSE

\* a is the address of a node of t.
IsAddr(t, a) ==
    \A k \in 1..Len(a) :
        /\ \A j \in 1..(k - 1) : a[j] <= Len(ChildrenAt(t, SubSeq(a, 1, j - 1)))
        /\ a[k] <= Len(ChildrenAt(t, SubSeq(a, 1, k - 1)))

\* The addresses of the nodes of t at the depth of the expression p that p
\* selects, segment by segment.
Selected(t, p) ==
    {a \in [1..Len(p) -> 1..MaxNodes] :
        /\ IsAddr(t, a)
        /\ \A k \in 1..Len(p) : Selects(ChildrenAt(t, SubSeq(a, 1, k - 1)), a[k], p[k])}

RECURSIVE Precedes(_, _)
\* Tree order of two addresses of one depth: a comes before b.
Precedes(a, b) ==
    /\ a # << >>
    /\ \/ a[1] < b[1]
       \/ a[1] = b[1] /\ Precedes(Tail(a), Tail(b))

\* C14: on an open session match(path) raises (RuntimeError) exactly when
\* the expression is malformed or cannot be evaluated; otherwise it returns
\* one concrete path for every node the expression selects and no other, in
\* tree order and without duplicates, and the empty sequence when the
\* expression selects no node; the tree is left as it was.
C14_MatchOrdered ==
    OnOpen("match") =>
        LET p == res.path.v
            n == Len(res.paths)
        IN  /\ tree = old.tree
            /\ res.exc = IF Unevaluable(p) THEN "RuntimeError" ELSE "none"
            /\ res.exc # "none" => res.paths = << >>
            /\ res.exc = "none" =>
                  LET addr == [k \in 1..n |-> Matched(tree, res.paths[k])]
                  IN  /\ n = Cardinality(Selected(tree, p))
                      /\ \A k \in 1..n :
                            /\ Len(addr[k]) = 1
                            /\ addr[k][1] \in Selected(tree, p)
                            /\ res.paths[k] = PathOf(tree, addr[k][1])
                      /\ \A j, k \in 1..n :
                            j < k => /\ res.paths[j] # res.paths[k]
                                     /\ Precedes(addr[j][1], addr[k][1])
                      /\ Selected(tree, p) = {} => res.paths = << >>

\* C14, witness: a match of a two-segment expression has returned the paths
\* of two children of one node.
C14_Witness ==
    /\ OnOpen("match")
    /\ res.exc = "none"
    /\ Len(res.path.v) = 2
    /\ Len(res.paths) = 2
    /\ res.paths[1][1] = res.paths[2][1]

\* The addresses of the nodes of t, the root (<< >>) included, that can
\* have children within the bound.
Parents(t) ==
    {<< >>} \cup {a \in UNION {[1..d -> 1..MaxNodes] : d \in 1..(MaxNodes - 1)} : IsAddr(t, a)}

\* The positions of the children of the node at a that carry the label l.
Labeled(t, a, l) ==
    LET kids == ChildrenAt(t, a)
    IN  {i \in 1..Len(kids) : kids[i].label = l}

\* match of the concrete path of the node at a followed by the segment seg.
MatchBelow(h, t, a, seg) == MatchCall(h, t, Str(PathOf(t, a) \o <<seg>>))

\* C15: for every node (the root included) with k >= 1 children labeled L,
\* match of L[last()] below it returns the single node that L[k] returns,
\* its last child labeled L; L[N] with 1 <= N <= k returns exactly its N-th
\* child labeled L in sibling order; L[N] with N > k returns nothing; and
\* L[0] raises (RuntimeError) instead of returning nothing.
C15_IndexAndLast ==
    OnOpen("match") =>
        \A a \in Parents(tree), l \in Labels :
            LET same == Labeled(tree, a, l)
                k == Cardinality(same)
                nth(n) == CHOOSE i \in same : Cardinality({j \in same : j <= i}) = n
                m(seg) == MatchBelow(handle, tree, a, seg)
                at(seg) == Matched(tree, PathOf(tree, a) \o <<seg>>)
            IN  k >= 1 =>
                  /\ m(Last(l)).exc = "none"
                  /\ m(Last(l)).paths = m(Ind(l, k)).paths
                  /\ at(Last(l)) = <<Append(a, nth(k))>>
                  /\ \A j \in same : j <= nth(k)
                  /\ \A n \in 1..k :
                        /\ m(Ind(l, n)).exc = "none"
                        /\ Len(m(Ind(l, n)).paths) = 1
                        /\ at(Ind(l, n)) = <<Append(a, nth(n))>>
                        /\ Matched(tree, m(Ind(l, n)).paths[1]) = <<Append(a, nth(n))>>
                  /\ \A n \in (k + 1)..(MaxNodes + 1) :
                        /\ m(Ind(l, n)).exc = "none"
                        /\ m(Ind(l, n)).paths = << >>
                  /\ m(Ind(l, 0)).exc = "RuntimeError"
                  /\ AugMatch(tree, PathOf(tree, a) \o <<Ind(l, 0)>>).ret < 0

\* C15, witness: a match of 'a/b[last()]' has returned the path of the
\* second of two children b, a[1]/b[2].
C15_Witness ==
    /\ OnOpen("match")
    /\ res.exc = "none"
    /\ res.path.v = <<Lbl("a"), Last("b")>>
    /\ res.paths = <<(<<Ind("a", 1), Ind("b", 2)>>)>>

----
\* The handle (src/augeas.py: self.__handle).

\* This step is a call, other than __init__, that reaches the native engine.
NativeCall == res = Idle /\ res' # Idle /\ res'.op # "__init__" /\ res'.native

\* C16: the handle the object holds is a pointer exactly while the native
\* session is alive; every call that reaches the native engine, a close or
\* a finalisation through __del__ included, is made with the handle of a
\* live native session, never with one that was closed; and the native
\* close is called at most once: it frees a live session, and a freed
\* session stays freed.
C16_NoUseAfterClose ==
    /\ [](/\ handle = "ptr" <=> engine = "alive"
          /\ engine = "freed" => handle = "None"
          /\ (res.op \in SessionOps \cup {"close", "__del__"} /\ res.native) =>
                old.handle = "ptr")
    /\ [][NativeCall => (handle = "ptr" /\ engine = "alive")]_vars
    /\ [][(NativeCall /\ res'.op \in {"close", "__del__"}) =>
            (engine = "alive" /\ engine' = "freed" /\ handle' = "None")]_vars
    /\ [][engine = "freed" => engine' = "freed"]_vars
    /\ [][(engine = "alive" /\ engine' # "alive") =>
            (engine' = "freed" /\ res'.op \in {"close", "__del__"} /\ res'.native)]_vars

\* C16, witness: the object is finalised through __del__ after close had
\* freed its native session; the native close is not called again.
C16_Witness ==
    /\ res.op = "__del__"
    /\ phase = "dead"
    /\ old.handle = "None"
    /\ engine = "freed"
    /\ ~res.native
    /\ res.exc = "none"

\* The operations that take arguments.
ArgOps == {"get", "set", "insert", "remove", "match", "write"}

\* C17: in get, set, insert, remove, match and write the types of the
\* arguments are checked first, the handle second, and the native engine is
\* called last: a call with an ill-typed argument raises TypeError, reaches
\* no native call and changes nothing of the session, on an open and on a
\* closed session alike; a well-typed call on a closed session raises
\* RuntimeError without a native call; a well-typed call on an open session
\* reaches the native engine.
C17_TypeChecksFirst ==
    res.op \in ArgOps =>
        /\ ~WellTyped(res) =>
              (res.exc = "TypeError" /\ ~res.native /\ SessionUnchanged /\ engine # "none")
        /\ (WellTyped(res) /\ WasClosed) =>
              (res.exc = "RuntimeError" /\ ~res.native /\ SessionUnchanged)
        /\ (WellTyped(res) /\ ~WasClosed) => (res.native /\ res.exc # "TypeError")

\* C17, witness: write with an out that is no file has raised TypeError on
\* a closed session.
C17_Witness ==
    /\ res.op = "write"
    /\ res.sink # "file"
    /\ res.path.t = "str"
    /\ WasClosed
    /\ res.exc = "TypeError"

----
\* The read operations.

ReadOps == {"get", "match", "write"}

\* This step is a call of get, match or write.
ReadCall == res = Idle /\ res' # Idle /\ res'.op \in ReadOps

\* C18: get, match and write, whether they return or raise, leave the tree,
\* the files with pending changes, the files on disk and the handle as they
\* were, and so does taking their result: after any number of them the
\* session is as the previous call left it.  Hence a save that follows a
\* save that did not fail, with only such calls in between, writes no file
\* (and one that follows a failed save writes only files that save left
\* pending); and the handle goes from open to closed only in close, called
\* directly or through __del__.
C18_ReadsArePure ==
    /\ []((res.op \in ReadOps /\ phase = "live") =>
            /\ SessionUnchanged
            /\ since = old.since
            /\ engine = IF handle = "ptr" THEN "alive" ELSE engine)
    /\ []((Saved /\ old.since = "saved") => (res.written = {} /\ disk = old.disk))
    /\ []((Saved /\ old.since = "savefailed") => res.written \subseteq old.dirty)
    /\ [][(ReadCall \/ res' = Idle) =>
            /\ tree' = tree
            /\ dirty' = dirty
            /\ disk' = disk
            /\ handle' = handle
            /\ since' = since
            /\ saves' = saves]_vars
    /\ [][(handle = "ptr" /\ handle' # "ptr") =>
            (handle' = "None" /\ res'.op \in {"close", "__del__"})]_vars

\* C18, witness: a write that raised IOError on an open session whose last
\* save wrote a file: nothing is pending before and after it.
C18_Witness ==
    /\ res.op = "write"
    /\ res.exc = "IOError"
    /\ since = "saved"
    /\ \E f \in Files : disk[f] # Disk0[f]
    /\ dirty = {}
    /\ tree # << >>

====
